---------------------------- MODULE Spec2Model ----------------------------
(***************************************************************************)
(* Level-generation engine of the roadmap service (src/level_generator.py). *)
(*                                                                         *)
(* generate_level_roadmap(original_skills, career_goal, learning_level)    *)
(* constructs a LevelGenerator and converts the skill list into a document *)
(* {roadmap, levels, milestones, stats}.                                   *)
(*                                                                         *)
(* Conventions of the translation:                                         *)
(*  - Python lists are sequences; a 0-based index i is element i + 1.      *)
(*  - Python dicts are records; an absent key is an absent field.          *)
(*  - None is the string "None".                                           *)
(*  - A skill name is kept as its sequence of words, so that               *)
(*    name.replace(' ', '+') and the plain name are both computable.       *)
(*  - Emoji literals cannot be written in a module; each is replaced by    *)
(*    its name between brackets, e.g. "[trophy]".                          *)
(*  - The floats of the source (0.5, 100 / total_levels) are kept as exact *)
(*    fractions [num, den]; int() truncates the fraction.                  *)
(***************************************************************************)
EXTENDS Integers, Sequences, FiniteSets, TLC

VARIABLES
    skills,          \* argument original_skills of the current invocation
    career_goal,     \* argument career_goal of the current invocation
    learning_level,  \* argument learning_level of the current invocation
    level_positions, \* self.level_positions of the generator constructed last
    pc,              \* "called": the invocation is running; "returned": it is over
    document,        \* what the current invocation returned, or NoDocument
    first_return,    \* RepeatSpec only: the first invocation and its result
    roadmaps,        \* table roadmaps: the rows in order of their id
    level_progress,  \* table level_progress: the rows in order of their id
    worker,          \* per request thread: where it is in complete_level
    last_response    \* the response of the request that ended last

\* the state of the database and of the request threads
storeVars == <<roadmaps, level_progress, worker, last_response>>

vars == <<skills, career_goal, learning_level, level_positions, pc, document,
          first_return, roadmaps, level_progress, worker, last_response>>

args == <<skills, career_goal, learning_level>>

(***************************************************************************)
(* Bounds of the model.                                                    *)
(***************************************************************************)
MaxSkills == 13

\* complete_level is requested for the level numbers 0..MaxLevelNumber
MaxLevelNumber == 2

\* the threads of the server's pool that serve complete_level
Workers == {"w1", "w2"}

\* the ids of the registered users
Users == {1, 2}

(***************************************************************************)
(* Values.                                                                 *)
(***************************************************************************)
None == "None"

\* no document: the invocation has not returned
NoDocument == [pending |-> TRUE]

\* no invocation has returned yet
NoCall == [pending |-> TRUE]

NoGenerator == <<>>

\* Python's max on integers
Max(a, b) == IF a >= b THEN a ELSE b

\* Python's min on integers
Min(a, b) == IF a <= b THEN a ELSE b

\* seq[i] for a 0-based index i
Nth0(seq, i) == seq[i + 1]

\* int(x) of a non-negative fraction x: truncation
IntOf(x) == x.num \div x.den

RECURSIVE Join(_, _)
\* sep.join(words)
Join(words, sep) ==
    IF Len(words) = 0 THEN ""
    ELSE IF Len(words) = 1 THEN words[1]
    ELSE words[1] \o sep \o Join(Tail(words), sep)

\* skill['name'] as the string it is
Name(skill) == Join(skill.name, " ")

\* skill_name.replace(' ', '+')
NamePlus(skill) == Join(skill.name, "+")

(***************************************************************************)
(* Inputs.  The skill lists are the prefixes of a catalogue that repeats   *)
(* the first three skills of the Web Developer template.                   *)
(***************************************************************************)
SkillCatalogue ==
    << [name |-> <<"HTML", "Basics">>, stage |-> "Beginner", hours |-> 10],
       [name |-> <<"CSS", "Fundamentals">>, stage |-> "Beginner", hours |-> 15],
       [name |-> <<"JavaScript", "Basics">>, stage |-> "Beginner", hours |-> 20] >>

SkillList(n) == [k \in 1..n |-> SkillCatalogue[((k - 1) % Len(SkillCatalogue)) + 1]]

SkillLists == {SkillList(n) : n \in 0..MaxSkills}

CareerGoals == {"Web Developer", "Data Analyst"}

\* "Expert" stands for any value that is none of the three tiers
LearningLevels == {"Beginner", "Intermediate", "Advanced", "Expert"}

(***************************************************************************)
(* Class attributes of LevelGenerator.                                     *)
(***************************************************************************)
LEVEL_PATTERN == <<"basics", "concept", "practice", "challenge", "boss">>

LEVEL_ICONS ==
    [basics    |-> <<"[seedling]", "[open book]", "[beginner]", "[bulb]">>,
     concept   |-> <<"[palette]", "[puzzle]", "[gear]", "[microscope]">>,
     practice  |-> <<"[briefcase]", "[tools]", "[zap]", "[dart]">>,
     challenge |-> <<"[brain]", "[gamepad]", "[swords]", "[runner]">>,
     boss      |-> <<"[crown]", "[trophy]", "[gem]", "[superhero]">>]

(***************************************************************************)
(* LevelGenerator._generate_path_positions                                 *)
(***************************************************************************)
\* x of the zigzag at 0-based index i
ZigzagX(i) ==
    IF i % 4 = 0 THEN 50
    ELSE IF i % 4 = 1 THEN 30
    ELSE IF i % 4 = 2 THEN 70
    ELSE 50

\* y_step = 100 / total_levels; y = i * y_step + 10; int(y)
PathY(i, total_levels) ==
    IntOf([num |-> i * 100 + 10 * total_levels, den |-> total_levels])

GeneratePathPositions(total_levels) ==
    [k \in 1..total_levels |-> [x |-> ZigzagX(k - 1), y |-> PathY(k - 1, total_levels)]]

\* a table that outlives the generator and is extended by each construction
LevelGeneratorInitShared == level_positions \o GeneratePathPositions(20)

\* LevelGenerator.__init__: the value of self.level_positions
LevelGeneratorInit == GeneratePathPositions(20)

(***************************************************************************)
(* LevelGenerator.convert_skills_to_levels: the tier policy                *)
(***************************************************************************)
LevelsPerSkill(level) ==
    IF level = "Beginner" THEN [num |-> 2, den |-> 1]
    ELSE IF level = "Intermediate" THEN [num |-> 1, den |-> 1]
    ELSE [num |-> 1, den |-> 2]

\* an unrecognised tier given the Intermediate minutes
TimePerLevelDefaultIntermediate(level) ==
    IF level = "Beginner" THEN 30
    ELSE IF level = "Advanced" THEN 90
    ELSE 45

TimePerLevel(level) ==
    IF level = "Beginner" THEN 30
    ELSE IF level = "Intermediate" THEN 45
    ELSE 90

\* int(levels_per_skill) with no floor at one level
NumLevelsNoFloor(levels_per_skill) == IntOf(levels_per_skill)

\* num_levels = max(1, int(levels_per_skill))
NumLevels(levels_per_skill) == Max(1, IntOf(levels_per_skill))

\* the type index taken from the number itself, not from the number minus one
LevelTypeIndexOffByOne(level_number) == level_number % Len(LEVEL_PATTERN)

\* level_type_index = (level_number - 1) % len(self.LEVEL_PATTERN)
LevelTypeIndex(level_number) == (level_number - 1) % Len(LEVEL_PATTERN)

LevelType(level_number) == Nth0(LEVEL_PATTERN, LevelTypeIndex(level_number))

Icon(level_number, level_type) ==
    Nth0(LEVEL_ICONS[level_type], (level_number - 1) % Len(LEVEL_ICONS[level_type]))

Title(skill, level_type) ==
    IF level_type = "boss" THEN "[trophy] BOSS: " \o Name(skill) \o " Challenge"
    ELSE IF level_type = "challenge" THEN "Quick " \o Name(skill) \o " Quiz"
    ELSE IF level_type = "practice" THEN "Build with " \o Name(skill)
    ELSE IF level_type = "concept" THEN "Understanding " \o Name(skill)
    ELSE "Intro to " \o Name(skill)

\* the table indexed by the level number, not by the number minus one
PositionOffByOne(positions, level_number) ==
    Nth0(positions, Min(level_number, Len(positions) - 1))

\* self.level_positions[min(level_number - 1, len(self.level_positions) - 1)]
Position(positions, level_number) ==
    Nth0(positions, Min(level_number - 1, Len(positions) - 1))

\* the reward of a challenge taken from the next entry of the table
XpRewardChallengeAsBoss(level_type) ==
    [basics |-> 100, concept |-> 150, practice |-> 200, challenge |-> 500,
     boss |-> 500][level_type]

XpReward(level_type) ==
    [basics |-> 100, concept |-> 150, practice |-> 200, challenge |-> 100,
     boss |-> 500][level_type]

\* every first level of a skill starts unlocked
InitialStatusAlways(level_number) == "unlocked"

\* status of a new level
InitialStatus(level_number) == IF level_number = 1 THEN "unlocked" ELSE "locked"

\* the minutes of a boss level not doubled
EstimatedMinutesNoDouble(time_per_level, level_type) == time_per_level

EstimatedMinutes(time_per_level, level_type) ==
    IF level_type # "boss" THEN time_per_level ELSE time_per_level * 2

(***************************************************************************)
(* LevelGenerator._simplify_goal                                           *)
(***************************************************************************)
SimplifyGoal(skill, level_type) ==
    [basics    |-> "Learn the fundamentals of " \o Name(skill),
     concept   |-> "Understand how " \o Name(skill) \o " works",
     practice  |-> "Build something with " \o Name(skill),
     challenge |-> "Test your " \o Name(skill) \o " knowledge",
     boss      |-> "Complete a real project using " \o Name(skill)][level_type]

(***************************************************************************)
(* LevelGenerator._generate_resources                                      *)
(***************************************************************************)
\* a practice level served by the branch of basics and concept
GenerateResourcesPracticeAsBasics(skill, level_type) ==
    IF level_type \in {"basics", "concept", "practice"} THEN
        << [type |-> "video",
            title |-> Name(skill) \o " Explained in 10 Minutes",
            url |-> "https://youtube.com/search?q=" \o NamePlus(skill) \o "+tutorial",
            duration |-> "10 min"],
           [type |-> "article",
            title |-> Name(skill) \o " Cheatsheet",
            url |-> "https://google.com/search?q=" \o NamePlus(skill) \o "+cheatsheet",
            duration |-> "5 min read"] >>
    ELSE << >>

GenerateResources(skill, level_type) ==
    LET resources ==
            IF level_type \in {"basics", "concept"} THEN
                << [type |-> "video",
                    title |-> Name(skill) \o " Explained in 10 Minutes",
                    url |-> "https://youtube.com/search?q=" \o NamePlus(skill) \o "+tutorial",
                    duration |-> "10 min"],
                   [type |-> "article",
                    title |-> Name(skill) \o " Cheatsheet",
                    url |-> "https://google.com/search?q=" \o NamePlus(skill) \o "+cheatsheet",
                    duration |-> "5 min read"] >>
            ELSE IF level_type = "practice" THEN
                << [type |-> "interactive",
                    title |-> Name(skill) \o " Playground",
                    url |-> "https://codepen.io/search/pens?q=" \o NamePlus(skill),
                    duration |-> "Hands-on"] >>
            ELSE << >>
    IN  SubSeq(resources, 1, Min(2, Len(resources)))

(***************************************************************************)
(* LevelGenerator._generate_task                                           *)
(***************************************************************************)
GenerateTask(skill, level_type) ==
    IF level_type = "basics" THEN
        [type |-> "mcq",
         question |-> "What is the main purpose of " \o Name(skill) \o "?",
         options |-> <<"Option A (to be filled)", "Option B (to be filled)",
                       "Option C (to be filled)", "Option D (to be filled)">>,
         correct_answer |-> "Option A (to be filled)",
         hint |-> "Review the first resource"]
    ELSE IF level_type = "concept" THEN
        [type |-> "code",
         question |-> "Write a simple example using " \o Name(skill),
         starter_code |-> "// Your code here",
         expected_output |-> "Basic functionality",
         hint |-> "Start with the simplest example"]
    ELSE IF level_type = "practice" THEN
        [type |-> "project",
         question |-> "Build a mini project with " \o Name(skill),
         requirements |-> <<"Use " \o Name(skill) \o " correctly",
                            "Make it functional", "Add basic styling">>,
         submission_type |-> "codepen_link"]
    ELSE IF level_type = "challenge" THEN
        [type |-> "quiz",
         questions |-> << [question |-> "Question about " \o Name(skill),
                           options |-> <<"A", "B", "C", "D">>,
                           correct_answer |-> "A"] >>,
         passing_score |-> 80]
    ELSE
        [type |-> "boss_project",
         question |-> "Build a complete project showcasing " \o Name(skill),
         requirements |-> <<"Demonstrate mastery", "Include all sub-concepts",
                            "Professional quality", "Deploy live">>,
         submission_type |-> "github_repo",
         review_required |-> TRUE]

(***************************************************************************)
(* LevelGenerator.convert_skills_to_levels: one level                      *)
(***************************************************************************)
\* the dict literal assigned to level
BaseLevel(positions, skill, time_per_level, level_number) ==
    LET level_type == LevelType(level_number)
    IN  [level_number      |-> level_number,
         level_type        |-> level_type,
         title             |-> Title(skill, level_type),
         status            |-> InitialStatus(level_number),
         icon              |-> Icon(level_number, level_type),
         position          |-> Position(positions, level_number),
         estimated_minutes |-> EstimatedMinutes(time_per_level, level_type),
         goal              |-> SimplifyGoal(skill, level_type),
         resources         |-> GenerateResources(skill, level_type),
         task              |-> GenerateTask(skill, level_type),
         xp_reward         |-> XpReward(level_type),
         completed_at      |-> None]

\* level with the keys badge_earned and description added
WithBossFields(level, skill) ==
    [k \in DOMAIN level \cup {"badge_earned", "description"} |->
        IF k = "badge_earned" THEN Name(skill) \o " Master [trophy]"
        ELSE IF k = "description" THEN "Your major project milestone!"
        ELSE level[k]]

\* the boss fields added to every level
AddBossFieldsAlways(level, skill) == WithBossFields(level, skill)

\* if level_type == "boss": level["badge_earned"] = ...; level["description"] = ...
AddBossFields(level, skill) ==
    IF level.level_type = "boss" THEN WithBossFields(level, skill) ELSE level

BuildLevel(positions, skill, time_per_level, level_number) ==
    AddBossFields(BaseLevel(positions, skill, time_per_level, level_number), skill)

\* the counter left as it is
NextLevelNumberStuck(level_number) == level_number

\* level_number += 1
NextLevelNumber(level_number) == level_number + 1

(***************************************************************************)
(* LevelGenerator.convert_skills_to_levels: the two loops.  The loop state *)
(* is [levels, level_number].                                              *)
(***************************************************************************)
RECURSIVE SubLevelLoop(_, _, _, _, _)
\* for sub_level in range(num_levels), with `remaining` iterations to go
SubLevelLoop(positions, skill, time_per_level, remaining, st) ==
    IF remaining = 0 THEN st
    ELSE SubLevelLoop(positions, skill, time_per_level, remaining - 1,
            [levels |-> Append(st.levels,
                               BuildLevel(positions, skill, time_per_level,
                                          st.level_number)),
             level_number |-> NextLevelNumber(st.level_number)])

RECURSIVE SkillLoop(_, _, _, _, _, _)
\* for skill_index, skill in enumerate(skills), from 0-based skill_index on
SkillLoop(positions, skill_list, levels_per_skill, time_per_level, skill_index, st) ==
    IF skill_index >= Len(skill_list) THEN st
    ELSE SkillLoop(positions, skill_list, levels_per_skill, time_per_level,
                   skill_index + 1,
                   SubLevelLoop(positions, Nth0(skill_list, skill_index),
                                time_per_level, NumLevels(levels_per_skill), st))

(***************************************************************************)
(* LevelGenerator._generate_milestones                                     *)
(***************************************************************************)
MilestoneNames(goal) ==
    << goal \o " Beginner [seedling]",
       goal \o " Apprentice [graduation cap]",
       goal \o " Practitioner [briefcase]",
       goal \o " Expert [trophy]",
       goal \o " Master [crown]" >>

MilestoneBadges == <<"[glowing star]", "[star]", "[dizzy]", "[sparkles]", "[shooting star]">>

\* str(n) for the numbers a milestone can carry
Str(n) ==
    IF n = 5 THEN "5" ELSE IF n = 10 THEN "10" ELSE IF n = 15 THEN "15"
    ELSE IF n = 20 THEN "20" ELSE "25"

Milestone(i, goal) ==
    [level       |-> i + 5,
     title       |-> Nth0(MilestoneNames(goal), i \div 5),
     badge       |-> Nth0(MilestoneBadges, (i \div 5) % 5),
     description |-> "Reached level " \o Str(i + 5) \o "!"]

RECURSIVE MilestoneLoop(_, _, _, _)
\* for i in range(0, len(levels), 5), from i on
MilestoneLoop(levels, goal, i, milestones) ==
    IF i >= Len(levels) THEN milestones
    ELSE MilestoneLoop(levels, goal, i + 5,
            IF i \div 5 < Len(MilestoneNames(goal))
            THEN Append(milestones, Milestone(i, goal))
            ELSE milestones)

RECURSIVE MilestoneLoopFullBlocks(_, _, _, _)
\* a milestone only for a block of five levels that is complete
MilestoneLoopFullBlocks(levels, goal, i, milestones) ==
    IF i + 5 > Len(levels) THEN milestones
    ELSE MilestoneLoopFullBlocks(levels, goal, i + 5,
            IF i \div 5 < Len(MilestoneNames(goal))
            THEN Append(milestones, Milestone(i, goal))
            ELSE milestones)

\* milestones for complete blocks only
GenerateMilestonesFullBlocks(levels, goal) ==
    MilestoneLoopFullBlocks(levels, goal, 0, << >>)

RECURSIVE MilestoneLoopInclusive(_, _, _, _)
\* range(0, len(levels) + 1, 5): the end of the range taken inclusive
MilestoneLoopInclusive(levels, goal, i, milestones) ==
    IF i > Len(levels) THEN milestones
    ELSE MilestoneLoopInclusive(levels, goal, i + 5,
            IF i \div 5 < Len(MilestoneNames(goal))
            THEN Append(milestones, Milestone(i, goal))
            ELSE milestones)

\* milestones with the end of the range inclusive
GenerateMilestonesInclusive(levels, goal) ==
    MilestoneLoopInclusive(levels, goal, 0, << >>)

GenerateMilestones(levels, goal) == MilestoneLoop(levels, goal, 0, << >>)

(***************************************************************************)
(* LevelGenerator._calculate_days                                          *)
(***************************************************************************)
RECURSIVE TotalMinutes(_)
\* sum(level["estimated_minutes"] for level in levels)
TotalMinutes(levels) ==
    IF Len(levels) = 0 THEN 0
    ELSE levels[1].estimated_minutes + TotalMinutes(Tail(levels))

\* the days without the day added at the end
CalculateDaysNoExtraDay(levels) == TotalMinutes(levels) \div 60

CalculateDays(levels) == (TotalMinutes(levels) \div 60) + 1

(***************************************************************************)
(* LevelGenerator.convert_skills_to_levels                                 *)
(***************************************************************************)
ConvertSkillsToLevels(positions, skill_list, goal, level) ==
    LET st == SkillLoop(positions, skill_list, LevelsPerSkill(level),
                        TimePerLevel(level), 0,
                        [levels |-> << >>, level_number |-> 1])
        levels == st.levels
    IN  [roadmap |-> [career_goal         |-> goal,
                      learning_level      |-> level,
                      total_levels        |-> Len(levels),
                      estimated_days      |-> CalculateDays(levels),
                      current_level       |-> 1,
                      progress_percentage |-> 0,
                      streak_days         |-> 0],
         levels |-> levels,
         milestones |-> GenerateMilestones(levels, goal),
         stats |-> [total_xp           |-> 0,
                    levels_completed   |-> 0,
                    current_streak     |-> 0,
                    longest_streak     |-> 0,
                    badges_earned      |-> << >>,
                    time_spent_minutes |-> 0]]

(***************************************************************************)
(* The state machine of the generator.                                     *)
(***************************************************************************)
\* no request has ended yet
NoResponse == [pending |-> TRUE]

\* a thread that is not inside complete_level
Idle == [pc |-> "idle"]

\* Database.init_database: empty tables; no request is running
StoreInit ==
    /\ roadmaps = << >>
    /\ level_progress = << >>
    /\ worker = [w \in Workers |-> Idle]
    /\ last_response = NoResponse

Init ==
    /\ StoreInit
    /\ skills \in SkillLists
    /\ career_goal \in CareerGoals
    /\ learning_level \in LearningLevels
    /\ level_positions = NoGenerator
    /\ pc = "called"
    /\ document = NoDocument
    /\ first_return = NoCall

\* a caller passes the arguments of the next invocation
Call(s, g, l) ==
    /\ pc = "returned"
    /\ pc' = "called"
    /\ skills' = s
    /\ career_goal' = g
    /\ learning_level' = l
    /\ document' = NoDocument
    /\ UNCHANGED <<level_positions, first_return>>
    /\ UNCHANGED storeVars

\* generate_level_roadmap: generator = LevelGenerator();
\* return generator.convert_skills_to_levels(...)
GenerateLevelRoadmap ==
    /\ pc = "called"
    /\ pc' = "returned"
    /\ level_positions' = LevelGeneratorInit
    /\ document' = ConvertSkillsToLevels(level_positions', skills, career_goal,
                                         learning_level)
    /\ UNCHANGED <<skills, career_goal, learning_level>>
    /\ UNCHANGED storeVars

\* the first invocation and what it returned are remembered, and whether an
\* invocation with other arguments has returned since
RecordFirstReturn ==
    first_return' =
        IF first_return = NoCall
        THEN [args |-> args, document |-> document', others |-> FALSE]
        ELSE IF first_return.args = args
        THEN first_return
        ELSE [first_return EXCEPT !.others = TRUE]

Next ==
    \/ \E s \in SkillLists, g \in CareerGoals, l \in LearningLevels : Call(s, g, l)
    \/ GenerateLevelRoadmap /\ UNCHANGED first_return

Spec == Init /\ [][Next]_vars

RepeatNext ==
    \/ \E s \in SkillLists, g \in CareerGoals, l \in LearningLevels : Call(s, g, l)
    \/ GenerateLevelRoadmap /\ RecordFirstReturn

RepeatSpec == Init /\ [][RepeatNext]_vars

Returned == pc = "returned"

(***************************************************************************)
(* Properties.                                                             *)
(***************************************************************************)
Levels == document.levels

Milestones == document.milestones

Meta == document.roadmap

LevelIndices == 1..Len(Levels)

\* the fixed cycle of level types
TypeCycle == <<"basics", "concept", "practice", "challenge", "boss">>

RECURSIVE MinutesUpTo(_, _)
\* the estimated_minutes of the first n levels of ls, added up
MinutesUpTo(ls, n) ==
    IF n = 0 THEN 0 ELSE MinutesUpTo(ls, n - 1) + ls[n].estimated_minutes

\* C1: for a skill list of length L the document has 2*L levels for Beginner,
\* L for Intermediate and L for Advanced; never more than 2*L; and
\* total_levels is the length of levels.
C1_TotalLevels ==
    Returned =>
        LET L == Len(skills)
            total == Meta.total_levels
        IN  /\ (learning_level = "Beginner" => total = 2 * L)
            /\ (learning_level = "Intermediate" => total = L)
            /\ (learning_level = "Advanced" => total = L)
            /\ total <= 2 * L
            /\ total = Len(Levels)

C1_Witness ==
    /\ Returned
    /\ learning_level = "Advanced"
    /\ Len(skills) = 3
    /\ Meta.total_levels = 3

\* C2: the level at 0-based index k has level_number k + 1, so the numbers
\* are exactly 1..total_levels, increasing, without gap or duplicate.
C2_LevelNumbers ==
    Returned =>
        /\ \A k \in LevelIndices : Levels[k].level_number = k
        /\ {Levels[k].level_number : k \in LevelIndices} = 1..Meta.total_levels

C2_Witness ==
    /\ Returned
    /\ Len(Levels) >= 21
    /\ Levels[21].level_number = 21

\* C3: the type of the level with number n is the element (n - 1) mod 5 of
\* the fixed cycle, whatever the skill and the tier.
C3_TypeCycle ==
    Returned =>
        \A k \in LevelIndices :
            Levels[k].level_type = TypeCycle[((Levels[k].level_number - 1) % 5) + 1]

C3_Witness ==
    /\ Returned
    /\ learning_level = "Beginner"
    /\ Len(Levels) >= 10
    /\ Levels[10].level_type = "boss"
    /\ Levels[6].level_type = "basics"
    /\ Levels[6].title = "Intro to JavaScript Basics"

\* C4 as stated: every returned document has exactly one unlocked level, it
\* is level 1, every other level is locked, nothing is completed.
C4_AsStated ==
    Returned =>
        /\ Cardinality({k \in LevelIndices : Levels[k].status = "unlocked"}) = 1
        /\ \A k \in LevelIndices :
            /\ Levels[k].status = "unlocked" => Levels[k].level_number = 1
            /\ Levels[k].level_number # 1 => Levels[k].status = "locked"
            /\ Levels[k].status # "completed"
            /\ Levels[k].completed_at = None

\* C4 as amended: every returned document that has at least one level has
\* exactly one unlocked level, it is level 1, every other level is locked,
\* nothing is completed and every completed_at is null.
C4_InitialStatus ==
    (Returned /\ Len(Levels) >= 1) =>
        /\ Cardinality({k \in LevelIndices : Levels[k].status = "unlocked"}) = 1
        /\ \A k \in LevelIndices :
            /\ Levels[k].status = "unlocked" => Levels[k].level_number = 1
            /\ Levels[k].level_number # 1 => Levels[k].status = "locked"
            /\ Levels[k].status # "completed"
            /\ Levels[k].completed_at = None

C4_Witness ==
    /\ Returned
    /\ Len(Levels) >= 3
    /\ Levels[1].status = "unlocked"
    /\ Levels[3].status = "locked"

\* C5: the number of milestones is min(floor(total_levels / 5), 5), the
\* milestone at 0-based index k has level 5 * (k + 1), and no milestone has
\* a level above 25.
C5_MilestoneCountFloor ==
    Returned =>
        /\ Len(Milestones) = Min(Meta.total_levels \div 5, 5)
        /\ \A k \in 1..Len(Milestones) :
            /\ Milestones[k].level = 5 * k
            /\ Milestones[k].level <= 25

C7_EstimatedDays ==
    Returned =>
        /\ Meta.estimated_days = (MinutesUpTo(Levels, Len(Levels)) \div 60) + 1
        /\ Meta.estimated_days >= 1

C7_Witness ==
    /\ Returned
    /\ learning_level = "Beginner"
    /\ Len(skills) = 1
    /\ Meta.total_levels = 2
    /\ Meta.estimated_days = 2

\* C8: an empty skill list gives, for every career goal and tier, a document
\* with no levels, no milestones, total_levels 0 and estimated_days 1.
C8_EmptySkills ==
    (Returned /\ Len(skills) = 0) =>
        /\ Levels = << >>
        /\ Milestones = << >>
        /\ Meta.total_levels = 0
        /\ Meta.estimated_days = 1

C8_Witness ==
    /\ Returned
    /\ skills = << >>
    /\ learning_level = "Expert"
    /\ Meta.total_levels = 0
    /\ Meta.estimated_days = 1

\* C9: a level carries badge_earned and description if and only if its type
\* is boss.
C9_BossFields ==
    Returned =>
        \A k \in LevelIndices :
            /\ Levels[k].level_type = "boss" =>
                {"badge_earned", "description"} \subseteq DOMAIN Levels[k]
            /\ Levels[k].level_type # "boss" =>
                {"badge_earned", "description"} \cap DOMAIN Levels[k] = {}

C9_Witness ==
    /\ Returned
    /\ Len(Levels) >= 5
    /\ "badge_earned" \in DOMAIN Levels[5]
    /\ "badge_earned" \notin DOMAIN Levels[4]

\* C10: an invocation with the arguments of an earlier one returns a document
\* equal to the earlier one's, also when invocations with other arguments
\* came in between.
C10_Deterministic ==
    (Returned /\ first_return # NoCall /\ first_return.args = args) =>
        document = first_return.document

C10_Witness ==
    /\ Returned
    /\ first_return # NoCall
    /\ first_return.others
    /\ first_return.args = args
    /\ Len(Levels) > 20

\* the zigzag of x values
XCycle == <<50, 30, 70, 50>>

\* the 20-entry layout table of the claim, by 0-based index
LayoutTable == [i \in 0..19 |-> [x |-> XCycle[(i % 4) + 1], y |-> 5 * i + 10]]

\* C11: the level with number n has position table[min(n - 1, 19)], where
\* table[i] has x = [50, 30, 70, 50][i mod 4] and y = 5 * i + 10; every level
\* with number >= 20 has the position of level 20.
C11_Position ==
    Returned =>
        \A k \in LevelIndices :
            LET n == Levels[k].level_number
            IN  /\ Levels[k].position = LayoutTable[Min(n - 1, 19)]
                /\ n >= 20 => Levels[k].position = Levels[20].position

C11_Witness ==
    /\ Returned
    /\ Len(Levels) >= 22
    /\ Levels[22].position = [x |-> 50, y |-> 105]
    /\ Levels[20].position = [x |-> 50, y |-> 105]
    /\ Levels[2].position = [x |-> 30, y |-> 15]

\* the reward of each level type
XpByType ==
    [basics |-> 100, concept |-> 150, practice |-> 200, challenge |-> 100,
     boss |-> 500]

\* C12: xp_reward depends on the level type only: basics 100, concept 150,
\* practice 200, challenge 100, boss 500; so it is determined by (n - 1) mod 5.
C12_XpReward ==
    Returned =>
        \A k \in LevelIndices :
            /\ Levels[k].xp_reward = XpByType[Levels[k].level_type]
            /\ Levels[k].xp_reward =
                 <<100, 150, 200, 100, 500>>[((Levels[k].level_number - 1) % 5) + 1]

C12_Witness ==
    /\ Returned
    /\ Len(Levels) >= 9
    /\ Levels[9].level_type = "challenge"
    /\ Levels[9].xp_reward = 100
    /\ Levels[5].xp_reward = 500

\* the minutes per level of each tier
TierMinutes ==
    IF learning_level = "Beginner" THEN 30
    ELSE IF learning_level = "Intermediate" THEN 45
    ELSE 90

\* C13: estimated_minutes is the tier's minutes per level (Beginner 30,
\* Intermediate 45, otherwise 90) for a level that is not boss, and twice
\* that for a boss level.
C13_EstimatedMinutes ==
    Returned =>
        \A k \in LevelIndices :
            /\ Levels[k].level_type # "boss" =>
                Levels[k].estimated_minutes = TierMinutes
            /\ Levels[k].level_type = "boss" =>
                Levels[k].estimated_minutes = 2 * TierMinutes

C13_Witness ==
    /\ Returned
    /\ learning_level = "Intermediate"
    /\ Len(Levels) >= 5
    /\ Levels[5].level_type = "boss"
    /\ Levels[5].estimated_minutes = 90
    /\ Levels[4].estimated_minutes = 45

Tiers == {"Beginner", "Intermediate", "Advanced"}

\* doc with the echoed learning_level replaced by level
WithLearningLevel(doc, level) == [doc EXCEPT !.roadmap.learning_level = level]

\* C14: an invocation with a learning_level that is none of the three tiers
\* returns a document, and that document is the one the Advanced tier gets
\* for the same skills and career goal (one level per skill, 90 minutes per
\* level that is not boss), but for the echoed learning_level.
C14_UnknownTierAsAdvanced ==
    (Returned /\ first_return # NoCall) =>
        /\ (/\ learning_level \notin Tiers
            /\ first_return.args = <<skills, career_goal, "Advanced">>)
           => /\ document = WithLearningLevel(first_return.document, learning_level)
              /\ Len(Levels) = Len(skills)
              /\ \A k \in LevelIndices :
                    Levels[k].level_type # "boss" => Levels[k].estimated_minutes = 90
        /\ (/\ learning_level = "Advanced"
            /\ first_return.args[1] = skills
            /\ first_return.args[2] = career_goal
            /\ first_return.args[3] \notin Tiers)
           => first_return.document = WithLearningLevel(document, first_return.args[3])

C14_Witness ==
    /\ Returned
    /\ first_return # NoCall
    /\ learning_level \notin Tiers
    /\ first_return.args = <<skills, career_goal, "Advanced">>
    /\ Len(skills) = 5
    /\ Meta.learning_level = "Expert"
    /\ Levels[5].estimated_minutes = 180

\* the types of the resources of a level, in order
ResourceTypes(level) == [i \in 1..Len(level.resources) |-> level.resources[i].type]

IsPercent(position) == position.x \in 0..100 /\ position.y \in 0..100

\* C27: every position of the layout table of the generator that ran, and the
\* position of every generated level, has x and y within 0..100.
C27_PositionsArePercent ==
    Returned =>
        /\ \A i \in 1..Len(level_positions) : IsPercent(level_positions[i])
        /\ \A k \in LevelIndices : IsPercent(Levels[k].position)

(***************************************************************************)
(* The progress store: the handlers of src/main.py over the tables roadmaps *)
(* and level_progress of src/database.py.                                  *)
(*                                                                         *)
(*  - A row is a record; a table is the sequence of its rows by id.        *)
(*  - SQL NULL is the record SqlNull; json.dumps(v) is [json |-> v].       *)
(*  - CURRENT_TIMESTAMP and datetime.now() are wall-clock values: a        *)
(*    timestamp is the string "CURRENT_TIMESTAMP", and whether the last    *)
(*    completion is less than two days old is any of TRUE and FALSE.       *)
(*  - An exception no handler catches ends the request with status 500.    *)
(***************************************************************************)
genVars == <<skills, career_goal, learning_level, level_positions, pc, document,
             first_return>>

\* CAREER_GOALS["Web Developer"]["beginner"]
WebDeveloperBeginner ==
    <<
       [name |-> <<"HTML", "Basics">>, stage |-> "Beginner", hours |-> 10],
       [name |-> <<"CSS", "Fundamentals">>, stage |-> "Beginner", hours |-> 15],
       [name |-> <<"JavaScript", "Basics">>, stage |-> "Beginner", hours |-> 20],
       [name |-> <<"Responsive", "Design">>, stage |-> "Beginner", hours |-> 12],
       [name |-> <<"Git", "&", "GitHub">>, stage |-> "Beginner", hours |-> 8],
       [name |-> <<"Frontend", "Framework", "(React/Vue)">>, stage |-> "Intermediate", hours |-> 30],
       [name |-> <<"Backend", "Basics", "(Node.js/Python)">>, stage |-> "Intermediate", hours |-> 25],
       [name |-> <<"Databases", "(SQL)">>, stage |-> "Intermediate", hours |-> 20],
       [name |-> <<"REST", "APIs">>, stage |-> "Intermediate", hours |-> 15],
       [name |-> <<"Deployment", "&", "Hosting">>, stage |-> "Intermediate", hours |-> 10]
    >>

\* CAREER_GOALS["Web Developer"]["intermediate"]
WebDeveloperIntermediate ==
    <<
       [name |-> <<"Advanced", "JavaScript", "(ES6+)">>, stage |-> "Intermediate", hours |-> 20],
       [name |-> <<"State", "Management", "(Redux/Vuex)">>, stage |-> "Intermediate", hours |-> 15],
       [name |-> <<"Backend", "Framework", "(Express/FastAPI)">>, stage |-> "Intermediate", hours |-> 25],
       [name |-> <<"Authentication", "&", "Security">>, stage |-> "Advanced", hours |-> 20],
       [name |-> <<"Database", "Design", "&", "Optimization">>, stage |-> "Advanced", hours |-> 18],
       [name |-> <<"Testing", "(Unit", "&", "Integration)">>, stage |-> "Advanced", hours |-> 15],
       [name |-> <<"CI/CD", "Pipelines">>, stage |-> "Advanced", hours |-> 12],
       [name |-> <<"Docker", "&", "Containers">>, stage |-> "Advanced", hours |-> 20],
       [name |-> <<"Cloud", "Services", "(AWS/GCP)">>, stage |-> "Advanced", hours |-> 25],
       [name |-> <<"Performance", "Optimization">>, stage |-> "Advanced", hours |-> 15]
    >>

\* CAREER_GOALS, with the goal "Web Developer" only
CAREER_GOALS ==
    [g \in {"Web Developer"} |->
        [beginner |-> WebDeveloperBeginner, intermediate |-> WebDeveloperIntermediate]]

\* get_available_career_goals
GetAvailableCareerGoals == DOMAIN CAREER_GOALS

\* learning_level.lower()
Lower(level) ==
    CASE level = "Beginner" -> "beginner"
      [] level = "Intermediate" -> "intermediate"
      [] level = "Advanced" -> "advanced"
      [] OTHER -> level

\* get_roadmap_template
GetRoadmapTemplate(goal, level) ==
    LET level_key == Lower(level)
    IN  IF goal \notin DOMAIN CAREER_GOALS THEN << >>
        ELSE IF level_key \notin DOMAIN CAREER_GOALS[goal] THEN << >>
        ELSE CAREER_GOALS[goal][level_key]

\* the career goals and learning levels a client asks a roadmap for
CreateGoals == {"Web Developer", "Chef"}

CreateLevels == {"Beginner", "Intermediate", "Advanced"}

\* the ids of table roadmaps the requests name; a row is created while the
\* id AUTOINCREMENT gives it is one of them
RoadmapIds == {1}

\* the level numbers complete_level is requested for: the first ones, and
\* the numbers 0 and 21 that no stored document has
LevelNumbers == (0..MaxLevelNumber) \cup {21}

SqlNull == [null |-> TRUE]

\* json.dumps
JsonDumps(v) == [json |-> v]

\* json.loads of a text json.dumps wrote
JsonLoads(text) == text.json

\* generate_level_roadmap as create_level_roadmap calls it
GenerateLevelRoadmapFor(skill_list, goal, level) ==
    ConvertSkillsToLevels(LevelGeneratorInit, skill_list, goal, level)

(***************************************************************************)
(* Responses.                                                              *)
(***************************************************************************)
\* return body, with the status of the route
Ok(op, request, status, body) ==
    [op |-> op, request |-> request, status |-> status, body |-> body]

\* raise HTTPException(status_code, detail)
HttpError(op, request, status, detail) ==
    [op |-> op, request |-> request, status |-> status, detail |-> detail]

\* an exception that leaves the handler
Unhandled(op, request, exception) ==
    [op |-> op, request |-> request, status |-> 500, exception |-> exception]

(***************************************************************************)
(* Queries.                                                                *)
(***************************************************************************)
\* the SELECT without its condition on user_id
RoadmapRowsOfAnyUser(roadmap_id, user_id) ==
    {i \in 1..Len(roadmaps) : roadmaps[i].id = roadmap_id}

\* SELECT * FROM roadmaps WHERE id = ? AND user_id = ?: the ids of the rows
RoadmapRows(roadmap_id, user_id) ==
    {i \in 1..Len(roadmaps) :
        roadmaps[i].id = roadmap_id /\ roadmaps[i].user_id = user_id}

\* SELECT * FROM level_progress WHERE roadmap_id = ? AND level_number = ?
ProgressRows(roadmap_id, level_number) ==
    {i \in 1..Len(level_progress) :
        /\ level_progress[i].roadmap_id = roadmap_id
        /\ level_progress[i].level_number = level_number}

RECURSIVE InsertByLevel(_, _)
\* row put into the sequence rows, which is ordered by level_number
InsertByLevel(rows, row) ==
    IF Len(rows) = 0 THEN <<row>>
    ELSE IF rows[Len(rows)].level_number <= row.level_number THEN Append(rows, row)
    ELSE Append(InsertByLevel(SubSeq(rows, 1, Len(rows) - 1), row), rows[Len(rows)])

RECURSIVE OrderByLevel(_)
\* ORDER BY level_number
OrderByLevel(rows) ==
    IF Len(rows) = 0 THEN << >>
    ELSE InsertByLevel(OrderByLevel(SubSeq(rows, 1, Len(rows) - 1)), rows[Len(rows)])

\* SELECT ... FROM level_progress WHERE roadmap_id = ? ORDER BY level_number
ProgressRecords(roadmap_id) ==
    OrderByLevel(SelectSeq(level_progress, LAMBDA r : r.roadmap_id = roadmap_id))

RECURSIVE SumXp(_)
\* total_xp += record["xp_earned"], over the records
SumXp(records) ==
    IF Len(records) = 0 THEN 0 ELSE records[1].xp_earned + SumXp(Tail(records))

RECURSIVE SumTime(_)
\* total_time += record["time_spent_minutes"], over the records
SumTime(records) ==
    IF Len(records) = 0 THEN 0
    ELSE records[1].time_spent_minutes + SumTime(Tail(records))

(***************************************************************************)
(* create_level_roadmap and create_roadmap                                 *)
(***************************************************************************)
\* the row INSERT INTO roadmaps adds
RoadmapRow(roadmap_id, user_id, goal, level, metadata) ==
    [id |-> roadmap_id, user_id |-> user_id, career_goal |-> goal,
     learning_level |-> level, existing_skills |-> "[]", metadata |-> metadata,
     last_activity |-> "created"]

CreateLevelRoadmap(u, g, l) ==
    LET request == [user |-> u, career_goal |-> g, learning_level |-> l]
        skills_template == GetRoadmapTemplate(g, l)
    IN  /\ IF g \notin GetAvailableCareerGoals THEN
               /\ last_response' = HttpError("create_level_roadmap", request, 400,
                                             "Invalid career goal. Choose from: ['Web Developer']")
               /\ UNCHANGED roadmaps
           ELSE IF Len(skills_template) = 0 THEN
               /\ last_response' = HttpError("create_level_roadmap", request, 400,
                                             "Invalid learning level")
               /\ UNCHANGED roadmaps
           ELSE
               /\ Len(roadmaps) + 1 \in RoadmapIds
               /\ LET level_roadmap == GenerateLevelRoadmapFor(skills_template, g, l)
                      roadmap_id == Len(roadmaps) + 1
                  IN  /\ roadmaps' = Append(roadmaps,
                            RoadmapRow(roadmap_id, u, g, l, JsonDumps(level_roadmap)))
                      /\ last_response' =
                            Ok("create_level_roadmap", request, 201,
                               [roadmap_id |-> roadmap_id,
                                message |-> "[gamepad] Level roadmap created successfully!",
                                total_levels |-> level_roadmap.roadmap.total_levels,
                                estimated_days |-> level_roadmap.roadmap.estimated_days])
        /\ UNCHANGED <<level_progress, worker>>
        /\ UNCHANGED genVars

\* create_roadmap: a roadmap of the skill view, stored without metadata
CreateRoadmap(u, g, l) ==
    LET request == [user |-> u, career_goal |-> g, learning_level |-> l]
        skills_template == GetRoadmapTemplate(g, l)
    IN  /\ IF g \notin GetAvailableCareerGoals THEN
               /\ last_response' = HttpError("create_roadmap", request, 400,
                                             "Invalid career goal. Choose from: ['Web Developer']")
               /\ UNCHANGED roadmaps
           ELSE IF Len(skills_template) = 0 THEN
               /\ last_response' = HttpError("create_roadmap", request, 400,
                                             "Invalid learning level")
               /\ UNCHANGED roadmaps
           ELSE
               /\ Len(roadmaps) + 1 \in RoadmapIds
               /\ LET roadmap_id == Len(roadmaps) + 1
                  IN  /\ roadmaps' = Append(roadmaps,
                            RoadmapRow(roadmap_id, u, g, l, SqlNull))
                      /\ last_response' =
                            Ok("create_roadmap", request, 201,
                               [id |-> roadmap_id, user_id |-> u, career_goal |-> g,
                                learning_level |-> l, existing_skills |-> << >>,
                                progress_percentage |-> 0])
        /\ UNCHANGED <<level_progress, worker>>
        /\ UNCHANGED genVars

(***************************************************************************)
(* get_roadmap_levels                                                      *)
(***************************************************************************)
\* the keys of the dict completed_levels
CompletedLevels(progress_records) ==
    {progress_records[i].level_number : i \in 1..Len(progress_records)}

\* completed_levels[level_num]: the value the last record of the level wrote
CompletedEntry(progress_records, level_num) ==
    LET last == CHOOSE i \in 1..Len(progress_records) :
                    /\ progress_records[i].level_number = level_num
                    /\ \A j \in (i + 1)..Len(progress_records) :
                          progress_records[j].level_number # level_num
    IN  [completed_at |-> progress_records[last].completed_at,
         xp_earned    |-> progress_records[last].xp_earned,
         time_spent   |-> progress_records[last].time_spent_minutes]

\* the level after the highest completed one
CurrentLevelNumberAfterHighest(progress_records) ==
    IF Len(progress_records) = 0 THEN 1
    ELSE progress_records[Len(progress_records)].level_number + 1

\* current_level_number = len(completed_levels) + 1
CurrentLevelNumber(progress_records) ==
    Cardinality(CompletedLevels(progress_records)) + 1

\* every level that is not completed reported as unlocked
LevelWithStatusAllUnlocked(level, progress_records) ==
    IF level.level_number \in CompletedLevels(progress_records)
    THEN [level EXCEPT !.status = "completed"]
    ELSE [level EXCEPT !.status = "unlocked"]

\* the body of the loop over level_data["levels"]
LevelWithStatus(level, progress_records) ==
    LET level_num == level.level_number
    IN  IF level_num \in CompletedLevels(progress_records)
        THEN [level EXCEPT
                !.status = "completed",
                !.completed_at = CompletedEntry(progress_records, level_num).completed_at]
        ELSE IF level_num = CurrentLevelNumber(progress_records)
        THEN [level EXCEPT !.status = "unlocked"]
        ELSE [level EXCEPT !.status = "locked"]

\* round(a / b) of Python: to the nearest integer, a tie to the even one
RoundHalfEven(a, b) ==
    LET q == a \div b
        r == a % b
    IN  IF 2 * r < b THEN q
        ELSE IF 2 * r > b THEN q + 1
        ELSE IF q % 2 = 0 THEN q
        ELSE q + 1

\* round((completed / total) * 100, 2), as a fraction of hundredths
ProgressPercentage(completed, total) ==
    [num |-> RoundHalfEven(completed * 10000, total), den |-> 100]

\* level_data as returned: the stored document with the progress merged in
LevelDataWithProgress(level_data, progress_records, recent) ==
    LET completed == Cardinality(CompletedLevels(progress_records))
    IN  [level_data EXCEPT
            !.levels = [k \in 1..Len(level_data.levels) |->
                            LevelWithStatus(level_data.levels[k], progress_records)],
            !.stats.levels_completed = completed,
            !.stats.total_xp = SumXp(progress_records),
            !.stats.time_spent_minutes = SumTime(progress_records),
            !.stats.current_streak =
                IF Len(progress_records) > 0 /\ recent THEN 1 ELSE @,
            !.roadmap.progress_percentage =
                ProgressPercentage(completed, Len(level_data.levels)),
            !.roadmap.current_level = CurrentLevelNumber(progress_records)]

\* the response of get_roadmap_levels in the current state of the tables
GetRoadmapLevelsResponse(u, roadmap_id, recent) ==
    LET request == [user |-> u, roadmap_id |-> roadmap_id]
        found == RoadmapRows(roadmap_id, u)
    IN  IF found = {} THEN
            HttpError("get_roadmap_levels", request, 404, "Roadmap not found")
        ELSE
            LET roadmap == roadmaps[CHOOSE i \in found : TRUE]
            IN  IF roadmap.metadata = SqlNull THEN
                    HttpError("get_roadmap_levels", request, 400,
                              "This is not a level-based roadmap. Use /roadmaps/my-roadmaps instead.")
                ELSE
                    LET level_data == JsonLoads(roadmap.metadata)
                    IN  IF Len(level_data.levels) = 0 THEN
                            Unhandled("get_roadmap_levels", request, "ZeroDivisionError")
                        ELSE
                            Ok("get_roadmap_levels", request, 200,
                               LevelDataWithProgress(level_data,
                                                     ProgressRecords(roadmap_id),
                                                     recent))

GetRoadmapLevels(u, roadmap_id, recent) ==
    /\ last_response' = GetRoadmapLevelsResponse(u, roadmap_id, recent)
    /\ UNCHANGED <<roadmaps, level_progress, worker>>
    /\ UNCHANGED genVars

(***************************************************************************)
(* complete_level                                                          *)
(***************************************************************************)
\* the None of a search that found no level, as a record
NoLevel == [none |-> TRUE]

\* a search that falls back on the first level
FindLevelOrFirst(level_data, level_number) ==
    LET hits == {k \in 1..Len(level_data.levels) :
                    level_data.levels[k].level_number = level_number}
    IN  IF hits = {} THEN level_data.levels[1]
        ELSE level_data.levels[CHOOSE k \in hits : \A j \in hits : k <= j]

\* next((l for l in level_data["levels"] if l["level_number"] == n), None)
FindLevel(level_data, level_number) ==
    LET hits == {k \in 1..Len(level_data.levels) :
                    level_data.levels[k].level_number = level_number}
    IN  IF hits = {} THEN NoLevel
        ELSE level_data.levels[CHOOSE k \in hits : \A j \in hits : k <= j]

\* the SELECT is made and its result is not looked at
AlreadyCompletedNeverFound(roadmap_id, level_number) == FALSE

\* cursor.fetchone() of the SELECT on level_progress is a row
AlreadyCompleted(roadmap_id, level_number) ==
    ProgressRows(roadmap_id, level_number) # {}

\* a table without the constraint
UniqueViolatedNever(roadmap_id, level_number) == FALSE

\* UNIQUE(roadmap_id, level_number) rejects the INSERT
UniqueViolated(roadmap_id, level_number) ==
    ProgressRows(roadmap_id, level_number) # {}

\* the row INSERT INTO level_progress adds
ProgressRow(roadmap_id, level_number, current_level) ==
    [id |-> Len(level_progress) + 1,
     roadmap_id |-> roadmap_id,
     level_number |-> level_number,
     completed_at |-> "CURRENT_TIMESTAMP",
     xp_earned |-> current_level.xp_reward,
     time_spent_minutes |-> current_level.estimated_minutes,
     task_answer |-> SqlNull]

\* an UPDATE that also writes the metadata column
UpdateLastActivityAndMetadata(roadmap_id) ==
    [i \in 1..Len(roadmaps) |->
        IF roadmaps[i].id = roadmap_id
        THEN [roadmaps[i] EXCEPT !.last_activity = "completion", !.metadata = SqlNull]
        ELSE roadmaps[i]]

\* UPDATE roadmaps SET last_activity = CURRENT_TIMESTAMP WHERE id = ?
UpdateLastActivity(roadmap_id) ==
    [i \in 1..Len(roadmaps) |->
        IF roadmaps[i].id = roadmap_id
        THEN [roadmaps[i] EXCEPT !.last_activity = "completion"]
        ELSE roadmaps[i]]

\* complete_level up to the SELECT on level_progress and its test
CompleteLevelCheck(w, u, roadmap_id, level_number) ==
    LET request == [worker |-> w, user |-> u, roadmap_id |-> roadmap_id,
                    level_number |-> level_number]
        found == RoadmapRows(roadmap_id, u)
    IN  /\ worker[w].pc = "idle"
        /\ IF found = {} THEN
               /\ last_response' = HttpError("complete_level", request, 403,
                                             "Not authorized")
               /\ UNCHANGED worker
           ELSE
               LET roadmap == roadmaps[CHOOSE i \in found : TRUE]
               IN  IF roadmap.metadata = SqlNull THEN
                       \* json.loads(None)
                       /\ last_response' = Unhandled("complete_level", request,
                                                     "TypeError")
                       /\ UNCHANGED worker
                   ELSE
                       LET current_level ==
                               FindLevel(JsonLoads(roadmap.metadata), level_number)
                       IN  IF current_level = NoLevel THEN
                               /\ last_response' =
                                     HttpError("complete_level", request, 404,
                                               "Level not found")
                               /\ UNCHANGED worker
                           ELSE IF AlreadyCompleted(roadmap_id, level_number) THEN
                               /\ last_response' =
                                     Ok("complete_level", request, 200,
                                        [message |-> "Level already completed",
                                         xp_earned |-> 0])
                               /\ UNCHANGED worker
                           ELSE
                               /\ last_response' = NoResponse
                               /\ worker' = [worker EXCEPT ![w] =
                                     [pc |-> "insert", request |-> request,
                                      current_level |-> current_level]]
        /\ UNCHANGED <<roadmaps, level_progress>>
        /\ UNCHANGED genVars

\* complete_level from the INSERT to the return
CompleteLevelInsert(w) ==
    /\ worker[w].pc = "insert"
    /\ LET request == worker[w].request
           current_level == worker[w].current_level
           roadmap_id == request.roadmap_id
           level_number == request.level_number
       IN  IF UniqueViolated(roadmap_id, level_number) THEN
               /\ last_response' = Unhandled("complete_level", request,
                                             "IntegrityError")
               /\ UNCHANGED <<roadmaps, level_progress>>
           ELSE
               /\ level_progress' =
                     Append(level_progress,
                            ProgressRow(roadmap_id, level_number, current_level))
               /\ roadmaps' = UpdateLastActivity(roadmap_id)
               /\ last_response' =
                     Ok("complete_level", request, 200,
                        [message |-> "[party] Level completed!",
                         level_number |-> level_number,
                         xp_earned |-> current_level.xp_reward,
                         next_level |-> level_number + 1,
                         badge_earned |->
                            IF current_level.level_type = "boss"
                            THEN current_level.badge_earned
                            ELSE None,
                         level_type |-> current_level.level_type])
    /\ worker' = [worker EXCEPT ![w] = Idle]
    /\ UNCHANGED genVars

(***************************************************************************)
(* get_dashboard_levels                                                    *)
(***************************************************************************)
\* the entry of result for one level-based roadmap of the user
DashboardEntry(roadmap) ==
    LET level_data == JsonLoads(roadmap.metadata)
        records == ProgressRecords(roadmap.id)
        completed == Len(records)
        xp == SumXp(records)
    IN  [roadmap_id |-> roadmap.id,
         career_goal |-> roadmap.career_goal,
         learning_level |-> roadmap.learning_level,
         total_levels |-> level_data.roadmap.total_levels,
         levels_completed |-> completed,
         current_level |-> completed + 1,
         progress_percentage |->
            [num |-> completed * 100, den |-> level_data.roadmap.total_levels],
         total_xp |-> xp]

RECURSIVE DashboardLoop(_, _)
\* for roadmap in roadmaps, newest first: the rows with id <= i
DashboardLoop(u, i) ==
    IF i = 0 THEN << >>
    ELSE IF roadmaps[i].user_id # u \/ roadmaps[i].metadata = SqlNull
    THEN DashboardLoop(u, i - 1)
    ELSE <<DashboardEntry(roadmaps[i])>> \o DashboardLoop(u, i - 1)

RECURSIVE SumField(_, _)
SumField(entries, f) ==
    IF Len(entries) = 0 THEN 0 ELSE entries[1][f] + SumField(Tail(entries), f)

GetDashboardLevelsResponse(u) ==
    LET request == [user |-> u]
        result == DashboardLoop(u, Len(roadmaps))
    IN  IF \E k \in 1..Len(result) : result[k].total_levels = 0
        THEN Unhandled("get_dashboard_levels", request, "ZeroDivisionError")
        ELSE Ok("get_dashboard_levels", request, 200,
                [user |-> [id |-> u],
                 roadmaps |-> result,
                 total_xp |-> SumField(result, "total_xp"),
                 total_levels_completed |-> SumField(result, "levels_completed")])

GetDashboardLevels(u) ==
    /\ last_response' = GetDashboardLevelsResponse(u)
    /\ UNCHANGED <<roadmaps, level_progress, worker>>
    /\ UNCHANGED genVars

(***************************************************************************)
(* The state machine of the progress store.                                *)
(***************************************************************************)
ProgressInit ==
    /\ StoreInit
    /\ skills = << >>
    /\ career_goal = "Web Developer"
    /\ learning_level = "Beginner"
    /\ level_positions = NoGenerator
    /\ pc = "called"
    /\ document = NoDocument
    /\ first_return = NoCall

ProgressNext ==
    \/ \E u \in Users, g \in CreateGoals, l \in CreateLevels : CreateLevelRoadmap(u, g, l)
    \/ \E u \in Users, g \in CreateGoals, l \in CreateLevels : CreateRoadmap(u, g, l)
    \/ \E u \in Users, r \in RoadmapIds, recent \in BOOLEAN : GetRoadmapLevels(u, r, recent)
    \/ \E w \in Workers, u \in Users, r \in RoadmapIds, n \in LevelNumbers :
            CompleteLevelCheck(w, u, r, n)
    \/ \E w \in Workers : CompleteLevelInsert(w)
    \/ \E u \in Users : GetDashboardLevels(u)

ProgressSpec == ProgressInit /\ [][ProgressNext]_vars

(***************************************************************************)
(* Properties of the progress store.                                       *)
(***************************************************************************)
\* a handler has returned or raised in the last step
Responded == last_response # NoResponse

\* the last step ended the handler op
RespondedTo(op) == Responded /\ last_response.op = op

\* the step ends a complete_level request of worker w with a response
CompleteLevelEnds(w) ==
    /\ last_response' # NoResponse
    /\ last_response'.op = "complete_level"
    /\ last_response'.request.worker = w

\* a completion entry for (roadmap_id, level_number) is stored
HasEntry(roadmap_id, level_number) ==
    \E i \in 1..Len(level_progress) :
        /\ level_progress[i].roadmap_id = roadmap_id
        /\ level_progress[i].level_number = level_number

\* user u owns roadmap roadmap_id
Owns(u, roadmap_id) ==
    \E i \in 1..Len(roadmaps) :
        roadmaps[i].id = roadmap_id /\ roadmaps[i].user_id = u

\* C15: a complete_level request of the owner that starts while a completion
\* entry for its (roadmap, level_number) exists never reaches the INSERT: the
\* step that starts it returns success with xp_earned 0 and leaves the
\* completion entries as they were.
C15_Resubmission ==
    [][\A w \in Workers :
          worker[w].pc = "idle" =>
             /\ worker'[w].pc = "insert" =>
                   ~HasEntry(worker'[w].request.roadmap_id,
                             worker'[w].request.level_number)
             /\ ( /\ CompleteLevelEnds(w)
                  /\ Owns(last_response'.request.user,
                          last_response'.request.roadmap_id)
                  /\ HasEntry(last_response'.request.roadmap_id,
                              last_response'.request.level_number) )
                => /\ last_response'.status = 200
                   /\ last_response'.body.xp_earned = 0
                   /\ level_progress' = level_progress]_vars

C15_Witness ==
    /\ RespondedTo("complete_level")
    /\ last_response.status = 200
    /\ last_response.body.xp_earned = 0
    /\ HasEntry(last_response.request.roadmap_id, last_response.request.level_number)
    /\ \A w \in Workers : worker[w].pc = "idle"

\* the level numbers of roadmap_id that have a completion entry
Completed(roadmap_id) == CompletedLevels(ProgressRecords(roadmap_id))

\* get_roadmap_levels has returned a document in the last step
ViewReturned == RespondedTo("get_roadmap_levels") /\ last_response.status = 200

\* the largest member of a non-empty set of numbers
Highest(S) == CHOOSE n \in S : \A m \in S : m <= n

\* the status the claim C16 gives level n of roadmap_id
StatusAfterHighest(roadmap_id, n) ==
    LET done == Completed(roadmap_id)
    IN  IF n \in done THEN "completed"
        ELSE IF n = (IF done = {} THEN 1 ELSE Highest(done) + 1) THEN "unlocked"
        ELSE "locked"

\* C16: in every document get_roadmap_levels returns, a level is completed
\* exactly when it has a completion entry, unlocked when its number is one
\* more than the highest completed number (1 when there is none) and locked
\* otherwise.
C16_StatusFromEntries ==
    ViewReturned =>
        \A k \in 1..Len(last_response.body.levels) :
            last_response.body.levels[k].status =
                StatusAfterHighest(last_response.request.roadmap_id,
                                   last_response.body.levels[k].level_number)

\* the status of every level as get_roadmap_levels reports it to the owner
\* in the current state of the tables
LevelStatuses(roadmap_id) ==
    LET found == {i \in 1..Len(roadmaps) : roadmaps[i].id = roadmap_id}
    IN  IF found = {} THEN << >>
        ELSE LET roadmap == roadmaps[CHOOSE i \in found : TRUE]
             IN  IF roadmap.metadata = SqlNull THEN << >>
                 ELSE LET levels == JsonLoads(roadmap.metadata).levels
                      IN  [k \in 1..Len(levels) |->
                              LevelWithStatus(levels[k],
                                              ProgressRecords(roadmap_id)).status]

\* the moves of a level's status: none, locked to unlocked, unlocked to completed
StatusMoves ==
    {<<"locked", "locked">>, <<"unlocked", "unlocked">>, <<"completed", "completed">>,
     <<"locked", "unlocked">>, <<"unlocked", "completed">>}

\* C17: from one state of the store to the next, the status get_roadmap_levels
\* reports for a level stays or moves locked -> unlocked or unlocked ->
\* completed: never unlocked -> locked, never locked -> completed, and a
\* completed level stays completed.
C17_StatusMoves ==
    [][\A r \in RoadmapIds :
          \A k \in DOMAIN LevelStatuses(r) :
              k \in DOMAIN LevelStatuses(r)' =>
                  <<LevelStatuses(r)[k], LevelStatuses(r)'[k]>> \in StatusMoves]_vars

\* C18: the completed level numbers of every roadmap are a prefix 1..k of its
\* level numbers.
C18_CompletedPrefix ==
    \A r \in RoadmapIds : Completed(r) = 1..Cardinality(Completed(r))

\* C19: a complete_level request for a level that has (or has just got) a
\* completion entry ends with success, also when another request for the same
\* level made its existence check before that entry was written.
C19_ConcurrentBothSucceed ==
    ( /\ RespondedTo("complete_level")
      /\ Owns(last_response.request.user, last_response.request.roadmap_id)
      /\ HasEntry(last_response.request.roadmap_id,
                  last_response.request.level_number) )
    => /\ last_response.status = 200
       /\ last_response.body.xp_earned \in
             {0, level_progress[CHOOSE i \in ProgressRows(
                                    last_response.request.roadmap_id,
                                    last_response.request.level_number) : TRUE].xp_earned}

\* every stored level document has levels: create_level_roadmap stores what
\* the generator makes of a template, and refuses an empty template
StoredDocumentsHaveLevels ==
    \A i \in 1..Len(roadmaps) :
        roadmaps[i].metadata # SqlNull =>
            /\ Len(JsonLoads(roadmaps[i].metadata).levels) > 0
            /\ JsonLoads(roadmaps[i].metadata).roadmap.total_levels > 0

\* roadmap_id is a stored roadmap without the level document (metadata NULL)
IsLegacy(roadmap_id) ==
    \E i \in 1..Len(roadmaps) :
        roadmaps[i].id = roadmap_id /\ roadmaps[i].metadata = SqlNull

\* roadmap_id is a stored roadmap with a level document
IsLevelBased(roadmap_id) ==
    \E i \in 1..Len(roadmaps) :
        roadmaps[i].id = roadmap_id /\ roadmaps[i].metadata # SqlNull

\* the stored level document of a level-based roadmap
StoredDocument(roadmap_id) ==
    JsonLoads(roadmaps[CHOOSE i \in 1..Len(roadmaps) :
                           roadmaps[i].id = roadmap_id].metadata)

\* C21: get_roadmap_levels and complete_level by the owner of a roadmap
\* without level document end in the client error 400 "not a level-based
\* roadmap", and no completion entry of that roadmap is stored.
C21_NotLevelBased ==
    ( /\ Responded
      /\ last_response.op \in {"get_roadmap_levels", "complete_level"}
      /\ Owns(last_response.request.user, last_response.request.roadmap_id)
      /\ IsLegacy(last_response.request.roadmap_id) )
    => /\ last_response.status = 400
       /\ Completed(last_response.request.roadmap_id) = {}

\* every stored level document is the one create_level_roadmap generated
\* from the row's career goal and learning level
StoredAsCreated ==
    \A i \in 1..Len(roadmaps) :
        roadmaps[i].metadata # SqlNull =>
            JsonLoads(roadmaps[i].metadata) =
                GenerateLevelRoadmapFor(
                    GetRoadmapTemplate(roadmaps[i].career_goal,
                                       roadmaps[i].learning_level),
                    roadmaps[i].career_goal, roadmaps[i].learning_level)

\* every row of roadmaps keeps the metadata it was created with
MetadataKept ==
    /\ Len(roadmaps') >= Len(roadmaps)
    /\ \A i \in 1..Len(roadmaps) : roadmaps'[i].metadata = roadmaps[i].metadata

\* the rows of roadmaps are as before, last_activity aside
OnlyLastActivityChanges ==
    /\ Len(roadmaps') = Len(roadmaps)
    /\ \A i \in 1..Len(roadmaps) :
          [roadmaps'[i] EXCEPT !.last_activity = roadmaps[i].last_activity] = roadmaps[i]

\* the step ends a get_roadmap_levels or get_dashboard_levels request
ReadEnds ==
    /\ last_response' # NoResponse
    /\ last_response'.op \in {"get_roadmap_levels", "get_dashboard_levels"}

\* C22: no step changes the metadata a roadmap was created with, so the
\* stored level document stays the document produced at creation: a step
\* that ends complete_level or changes the completion entries changes
\* nothing of table roadmaps but last_activity, and a step that ends
\* get_roadmap_levels or get_dashboard_levels changes neither table.
C22_StoredDocumentImmutable ==
    [][/\ MetadataKept
       /\ (level_progress' # level_progress \/ \E w \in Workers : CompleteLevelEnds(w))
             => OnlyLastActivityChanges
       /\ ReadEnds => roadmaps' = roadmaps /\ level_progress' = level_progress]_vars

C22_Witness ==
    /\ ViewReturned
    /\ last_response.body.stats.levels_completed = 2
    /\ last_response.body.levels[2].status = "completed"
    /\ StoredDocument(last_response.request.roadmap_id).stats.levels_completed = 0
    /\ StoredDocument(last_response.request.roadmap_id).levels[2].status = "locked"
    /\ \E i \in 1..Len(roadmaps) : roadmaps[i].last_activity = "completion"
    /\ StoredAsCreated

\* the step ends a get_roadmap_levels request
GetRoadmapLevelsEnds ==
    /\ last_response' # NoResponse
    /\ last_response'.op = "get_roadmap_levels"

\* C23: a user who does not own a roadmap neither changes nor reads its
\* progress: complete_level by a non-owner ends in 403 and changes no
\* completion entry, a non-owner's request never gets to the INSERT, and
\* get_roadmap_levels by a non-owner ends in an error with no document.
C23_NonOwner ==
    [][/\ \A w \in Workers :
             /\ (CompleteLevelEnds(w) /\ ~Owns(last_response'.request.user,
                                               last_response'.request.roadmap_id))
                   => /\ last_response'.status = 403
                      /\ level_progress' = level_progress
             /\ worker'[w].pc = "insert" =>
                   Owns(worker'[w].request.user, worker'[w].request.roadmap_id)
       /\ (GetRoadmapLevelsEnds /\ ~Owns(last_response'.request.user,
                                         last_response'.request.roadmap_id))
             => /\ last_response'.status = 404
                /\ "body" \notin DOMAIN last_response'
                /\ level_progress' = level_progress]_vars

C23_Witness ==
    /\ RespondedTo("complete_level")
    /\ last_response.status = 403
    /\ last_response.request.level_number = 1
    /\ IsLevelBased(last_response.request.roadmap_id)
    /\ ~Owns(last_response.request.user, last_response.request.roadmap_id)
    /\ Completed(last_response.request.roadmap_id) = {2}

\* complete_level has recorded a first completion in the last step
CompletionRecorded ==
    /\ RespondedTo("complete_level")
    /\ last_response.status = 200
    /\ "level_number" \in DOMAIN last_response.body

\* C25: a first successful complete_level of level n returns the xp_reward of
\* level n, and every document get_roadmap_levels returns has, after each
\* completed level n < total_levels, level n + 1 unlocked or completed.
C25_CompletionUnlocksNext ==
    /\ CompletionRecorded =>
          last_response.body.xp_earned =
              FindLevel(StoredDocument(last_response.request.roadmap_id),
                        last_response.body.level_number).xp_reward
    /\ ViewReturned =>
          \A k \in 1..(Len(last_response.body.levels) - 1) :
              last_response.body.levels[k].status = "completed" =>
                  last_response.body.levels[k + 1].status \in {"unlocked", "completed"}

RECURSIVE SumOverLevels(_, _, _)
\* the field f of the levels whose number is in done, added up
SumOverLevels(levels, done, f) ==
    IF Len(levels) = 0 THEN 0
    ELSE (IF levels[1].level_number \in done THEN levels[1][f] ELSE 0)
         + SumOverLevels(Tail(levels), done, f)

\* C26: every document get_roadmap_levels returns has stats.levels_completed
\* equal to the number of distinct completed levels, stats.total_xp and
\* stats.time_spent_minutes equal to the sums of xp_reward and
\* estimated_minutes over those levels, roadmap.current_level equal to
\* levels_completed + 1, and roadmap.progress_percentage equal to
\* 100 * levels_completed / total_levels and at most 100.
C26_Stats ==
    ViewReturned =>
        LET view == last_response.body
            stored == StoredDocument(last_response.request.roadmap_id)
            done == Completed(last_response.request.roadmap_id)
        IN  /\ view.stats.levels_completed = Cardinality(done)
            /\ view.stats.total_xp = SumOverLevels(stored.levels, done, "xp_reward")
            /\ view.stats.time_spent_minutes =
                  SumOverLevels(stored.levels, done, "estimated_minutes")
            /\ view.roadmap.current_level = view.stats.levels_completed + 1
            /\ view.roadmap.progress_percentage.num * stored.roadmap.total_levels =
                  100 * view.stats.levels_completed * view.roadmap.progress_percentage.den
            /\ view.roadmap.progress_percentage.num <=
                  100 * view.roadmap.progress_percentage.den

C26_Witness ==
    /\ ViewReturned
    /\ Completed(last_response.request.roadmap_id) = {1, 2}
    /\ last_response.body.stats.levels_completed = 2
    /\ last_response.body.stats.total_xp = 250
    /\ last_response.body.stats.time_spent_minutes = 60
    /\ last_response.body.roadmap.current_level = 3
    /\ last_response.body.roadmap.progress_percentage = [num |-> 1000, den |-> 100]

\* C28: in every reachable state, whatever the interleaving of complete_level
\* requests, there is at most one completion entry per (roadmap, level_number).
C28_OneEntryPerLevel ==
    \A i, j \in 1..Len(level_progress) :
        ( /\ level_progress[i].roadmap_id = level_progress[j].roadmap_id
          /\ level_progress[i].level_number = level_progress[j].level_number )
        => i = j

C28_Witness ==
    /\ RespondedTo("complete_level")
    /\ last_response.status = 500
    /\ last_response.exception = "IntegrityError"
    /\ Cardinality(ProgressRows(last_response.request.roadmap_id,
                                last_response.request.level_number)) = 1

\* the numbers of the levels a returned document reports with status st
LevelsWithStatus(view, st) ==
    {view.levels[k].level_number : k \in {j \in 1..Len(view.levels) :
                                            view.levels[j].status = st}}

\* the smallest member of a non-empty set of numbers
Lowest(S) == CHOOSE n \in S : \A m \in S : n <= m

\* C29: in every document get_roadmap_levels returns at most one level is
\* unlocked, and when some level is not completed exactly one level is
\* unlocked: the lowest-numbered level that is not completed.
C29_OneUnlocked ==
    ViewReturned =>
        LET view == last_response.body
            unlocked == LevelsWithStatus(view, "unlocked")
            open == {view.levels[k].level_number : k \in 1..Len(view.levels)}
                        \ LevelsWithStatus(view, "completed")
        IN  /\ Cardinality(unlocked) <= 1
            /\ open # {} => unlocked = {Lowest(open)}

\* the level numbers of the stored document of roadmap_id
StoredLevelNumbers(roadmap_id) ==
    LET levels == StoredDocument(roadmap_id).levels
    IN  {levels[k].level_number : k \in 1..Len(levels)}

\* C30: complete_level by the owner with a level_number the stored document
\* does not have ends in 404, and every completion entry belongs to a level
\* roadmap and has a level_number in 1..total_levels, so that
\* levels_completed <= total_levels.
C30_OnlyExistingLevels ==
    /\ ( /\ RespondedTo("complete_level")
         /\ Owns(last_response.request.user, last_response.request.roadmap_id)
         /\ IsLevelBased(last_response.request.roadmap_id)
         /\ last_response.request.level_number \notin
               StoredLevelNumbers(last_response.request.roadmap_id) )
       => last_response.status = 404
    /\ \A i \in 1..Len(level_progress) :
          /\ IsLevelBased(level_progress[i].roadmap_id)
          /\ level_progress[i].level_number \in
                1..StoredDocument(level_progress[i].roadmap_id).roadmap.total_levels
    /\ \A r \in RoadmapIds :
          IsLevelBased(r) =>
              Cardinality(Completed(r)) <= StoredDocument(r).roadmap.total_levels

C30_Witness ==
    /\ RespondedTo("complete_level")
    /\ last_response.status = 404
    /\ last_response.request.level_number = 21
    /\ Owns(last_response.request.user, last_response.request.roadmap_id)
    /\ StoredDocument(last_response.request.roadmap_id).roadmap.total_levels = 20
    /\ Completed(last_response.request.roadmap_id) = {1, 2}

=============================================================================
